---- MODULE Spec2Model ----
(***************************************************************************)
(* Model of O365/recipient.py: Recipient (one addressee), Recipients (the  *)
(* ordered collection attached to one field of an owner) and               *)
(* HandleRecipientsMixin (cloud <-> object conversion).                    *)
(*                                                                         *)
(* One Recipients object is followed through its life, together with the   *)
(* owner's _track_changes set.  Every public method is one action; the     *)
(* variable "last" is a history variable recording the last call, the      *)
(* state it started from and how many times it invoked                     *)
(* parent._track_changes.add(field).                                       *)
(***************************************************************************)
EXTENDS Integers, Sequences, FiniteSets, TLC

VARIABLES
    recipients,     \* Recipients._recipients: sequence of Recipient objects
    parent,         \* Recipients._parent
    field,          \* Recipients._field
    untrack,        \* Recipients.untrack
    track_changes,  \* the owner's _track_changes set
    pc,             \* "new" until a constructor has returned the object, then "ready"
    last            \* history: the last call and its pre-state

vars == <<recipients, parent, field, untrack, track_changes, pc, last>>

----------------------------------------------------------------------------
(* Bounds of the model *)

MaxLen == 3      \* longest collection followed

(* Value universes *)

None == "None"                       \* Python's None where a string or object is expected
Owner == "owner"                     \* an object exposing a _track_changes set
FieldName == "to_recipients"         \* the field the collection reports under
Addresses == {"", "a@x.com", "b@x.com"}
Names == {"", "Bob"}

----------------------------------------------------------------------------
(* Recipient *)

\* `value or ''` in Recipient.__init__
OrEmpty(value) == IF value = None \/ value = "" THEN "" ELSE value

\* Recipient.__init__
Recipient(address, name, p, f) ==
    [address |-> OrEmpty(address), name |-> OrEmpty(name),
     parent |-> p, field |-> f]

\* mutant: a name makes the Recipient truthy too
Recipient_bool_name_counts(r) == r.address # "" \/ r.name # ""

\* Recipient.__bool__
Recipient_bool(r) == r.address # ""

\* getattr(parent, '_track_changes', None) is not None
HasTrackChanges(p) == p = Owner

\* truthiness of a field name (None and '' are falsy)
FieldSet(f) == f # None /\ f # ""

----------------------------------------------------------------------------
(* Input shapes accepted (or rejected) by Recipients.add *)

Str(a) == [kind |-> "str", address |-> a]
Tuple(elts) == [kind |-> "tuple", elts |-> elts]
Obj(r) == [kind |-> "Recipient", r |-> r]
List(items) == [kind |-> "list", items |-> items]
Other(k, truthy) == [kind |-> k, truthy |-> truthy]

\* Python truthiness of an input value (`if recipients:`)
Truthy(x) ==
    CASE x.kind = "str" -> x.address # ""
      [] x.kind = "Recipient" -> Recipient_bool(x.r)
      [] x.kind = "tuple" -> Len(x.elts) > 0
      [] x.kind = "list" -> Len(x.items) > 0
      [] OTHER -> x.truthy

----------------------------------------------------------------------------
(* Recipients: the methods, as functions on the object `self`.             *)
(* self = [recipients, parent, field, untrack] plus the owner's            *)
(* track_changes set, the count `fired` of _track_changes.add calls made   *)
(* during the current call, and `raised` (an exception is propagating).    *)

Self(rs, p, f, u, tc) ==
    [recipients |-> rs, parent |-> p, field |-> f, untrack |-> u,
     track_changes |-> tc, fired |-> 0, raised |-> FALSE]

\* mutant: the test of the untrack flag is inverted
Recipients_track_changes_inverted(self) ==
    IF FieldSet(self.field) /\ HasTrackChanges(self.parent)
       /\ self.untrack = TRUE
    THEN [self EXCEPT !.track_changes = @ \cup {self.field}, !.fired = @ + 1]
    ELSE self

\* mutant: the untrack flag is not consulted
Recipients_track_changes_ignoring_untrack(self) ==
    IF FieldSet(self.field) /\ HasTrackChanges(self.parent)
    THEN [self EXCEPT !.track_changes = @ \cup {self.field}, !.fired = @ + 1]
    ELSE self

\* Recipients._track_changes
Recipients_track_changes(self) ==
    IF FieldSet(self.field) /\ HasTrackChanges(self.parent)
       /\ self.untrack = FALSE
    THEN [self EXCEPT !.track_changes = @ \cup {self.field}, !.fired = @ + 1]
    ELSE self

\* mutant: the element goes to the front of the list
Append_recipient_at_front(self, r) ==
    [self EXCEPT !.recipients = <<r>> \o @]

\* self._recipients.append(r)
Append_recipient(self, r) == [self EXCEPT !.recipients = Append(@, r)]

\* mutant: the error is swallowed
Raise_swallowed(self) == self

\* raise ValueError(...)
Raise(self) == [self EXCEPT !.raised = TRUE]

RECURSIVE add(_, _)
RECURSIVE add_each(_, _)

\* the loop `for recipient in recipients: self.add(recipient)`; an exception
\* raised by one iteration ends the loop
add_each(self, items) ==
    IF items = <<>> \/ self.raised THEN self
    ELSE add_each(add(self, Head(items)), Tail(items))

\* Recipients.add
add(self, x) ==
    IF ~Truthy(x) THEN self
    ELSE IF x.kind = "str"
    THEN Recipients_track_changes(
            Append_recipient(self,
                Recipient(x.address, None, self.parent, self.field)))
    ELSE IF x.kind = "Recipient"
    THEN Recipients_track_changes(Append_recipient(self, x.r))
    ELSE IF x.kind = "tuple"
    THEN IF Len(x.elts) # 2
         THEN Raise(self)      \* `name, address = recipients` raises ValueError
         ELSE LET name == x.elts[1]
                  address == x.elts[2]
              IN IF address # ""
                 THEN Recipients_track_changes(
                        Append_recipient(self,
                            Recipient(address, name, self.parent, self.field)))
                 ELSE Recipients_track_changes(self)
    ELSE IF x.kind = "list"
    THEN LET after == add_each(self, x.items)
         IN IF after.raised THEN after ELSE Recipients_track_changes(after)
    ELSE Raise(self)

\* mutant: clear notifies only when it emptied something
clear_if_changed(self) ==
    IF self.recipients = <<>> THEN self
    ELSE Recipients_track_changes([self EXCEPT !.recipients = <<>>])

\* Recipients.clear
clear(self) == Recipients_track_changes([self EXCEPT !.recipients = <<>>])

\* the set `address` that Recipients.remove tests membership in
removal_set(a) ==
    CASE a.kind = "str" -> {a.address}
      [] a.kind = "list" -> {a.items[i] : i \in DOMAIN a.items}
      [] a.kind = "tuple" -> {a.elts[i] : i \in DOMAIN a.elts}
      [] a.kind = "set" -> a.members

\* mutant: remove notifies whether or not anything was removed
remove_always_notifies(self, a) ==
    LET address == removal_set(a)
        kept == SelectSeq(self.recipients, LAMBDA r : r.address \notin address)
    IN [Recipients_track_changes(self) EXCEPT !.recipients = kept]

\* mutant: only the first matching entry is removed
remove_first_match(self, a) ==
    LET address == removal_set(a)
        hits == {i \in DOMAIN self.recipients :
                    self.recipients[i].address \in address}
        first == CHOOSE i \in hits : \A j \in hits : i <= j
        kept == IF hits = {} THEN self.recipients
                ELSE SubSeq(self.recipients, 1, first - 1)
                     \o SubSeq(self.recipients, first + 1, Len(self.recipients))
        tracked == IF Len(kept) # Len(self.recipients)
                   THEN Recipients_track_changes(self) ELSE self
    IN [tracked EXCEPT !.recipients = kept]

\* Recipients.remove
remove(self, a) ==
    LET address == removal_set(a)
        kept == SelectSeq(self.recipients, LAMBDA r : r.address \notin address)
        tracked == IF Len(kept) # Len(self.recipients)
                   THEN Recipients_track_changes(self) ELSE self
    IN [tracked EXCEPT !.recipients = kept]

\* Recipients.__contains__
contains(rs, item) == item \in {rs[i].address : i \in DOMAIN rs}

\* mutant: the length counts the different addresses
length_of_address_set(rs) == Cardinality({rs[i].address : i \in DOMAIN rs})

\* Recipients.__len__
length(rs) == Len(rs)

----------------------------------------------------------------------------
(* HandleRecipientsMixin *)

\* the owner's casing function self._cc (protocol.convert_case), here the
\* PascalCase convention
cc(key) ==
    CASE key = "emailAddress" -> "EmailAddress"
      [] key = "address" -> "Address"
      [] key = "name" -> "Name"

\* JSON values: None and mappings (a mapping is a function from its keys)
PyNone == [t |-> "NoneType", d |-> <<>>]
Dict(d) == [t |-> "dict", d |-> d]
PyStr == [t |-> "str", d |-> <<>>]       \* a non-empty string where a mapping is expected

\* truthiness of a raw item
RawTruthy(x) ==
    CASE x.t = "dict" -> DOMAIN x.d # {}
      [] x.t = "NoneType" -> FALSE
      [] OTHER -> TRUE

\* dict.get(key, default)
Get(x, key, default) == IF key \in DOMAIN x.d THEN x.d[key] ELSE default

\* HandleRecipientsMixin._recipient_from_cloud; raised stands for the
\* AttributeError of calling .get on a value that is no mapping
recipient_from_cloud(x, f) ==
    IF RawTruthy(x)
    THEN IF x.t # "dict"
         THEN [raised |-> TRUE, r |-> Recipient(None, None, None, None)]
         ELSE LET inner == Get(x, cc("emailAddress"), x)
              IN IF inner.t # "dict"
                 THEN [raised |-> TRUE, r |-> Recipient(None, None, None, None)]
                 ELSE [raised |-> FALSE,
                       r |-> Recipient(Get(inner, cc("address"), ""),
                                       Get(inner, cc("name"), ""), Owner, f)]
    ELSE [raised |-> FALSE, r |-> Recipient(None, None, None, None)]

\* mutant: the name is never written
recipient_to_cloud_without_name(x) ==
    IF Truthy(x)
    THEN Dict([k \in {cc("emailAddress")} |->
                Dict([j \in {cc("address")} |-> x.r.address])])
    ELSE PyNone

\* mutant: an empty mapping stands for the missing recipient
recipient_to_cloud_empty_mapping(x) ==
    IF Truthy(x)
    THEN IF x.r.name # ""
         THEN Dict([k \in {cc("emailAddress")} |->
                Dict([j \in {cc("address"), cc("name")} |->
                        IF j = cc("address") THEN x.r.address ELSE x.r.name])])
         ELSE Dict([k \in {cc("emailAddress")} |->
                Dict([j \in {cc("address")} |-> x.r.address])])
    ELSE Dict(<<>>)

\* HandleRecipientsMixin._recipient_to_cloud; x is None or a Recipient
recipient_to_cloud(x) ==
    IF Truthy(x)
    THEN IF x.r.name # ""
         THEN Dict([k \in {cc("emailAddress")} |->
                Dict([j \in {cc("address"), cc("name")} |->
                        IF j = cc("address") THEN x.r.address ELSE x.r.name])])
         ELSE Dict([k \in {cc("emailAddress")} |->
                Dict([j \in {cc("address")} |-> x.r.address])])
    ELSE PyNone

----------------------------------------------------------------------------
(* Inputs the actions draw from *)

Strs == {Str(a) : a \in Addresses}
Pairs == {Tuple(<<"Bob", "b@x.com">>), Tuple(<<"Bob", "">>), Tuple(<<"", "">>)}
Prebuilt ==
    {Obj(Recipient("b@x.com", "Bob", None, None)),
     Obj(Recipient("", "", None, None))}
Unsupported ==
    {Other("NoneType", FALSE), Other("dict", FALSE), Other("int", FALSE),
     Other("int", TRUE), Tuple(<<"a@x.com">>)}
Atoms == Strs \cup Pairs \cup Prebuilt \cup Unsupported

\* the lists of at most two elements of S
ShortLists(S) ==
    {List(<<>>)} \cup {List(<<x>>) : x \in S}
    \cup {List(<<x, y>>) : x \in S, y \in S}

ListAtoms ==
    {Str("a@x.com"), Str(""), Tuple(<<"Bob", "b@x.com">>), Tuple(<<"Bob", "">>),
     Other("int", TRUE)}
FlatLists == ShortLists(ListAtoms)

InnerLists == ShortLists({Str("a@x.com"), Other("int", TRUE)})
NestedLists ==
    {List(<<Tuple(<<"Bob", "b@x.com">>), l>>) : l \in InnerLists}
    \cup {List(<<l, Tuple(<<"Bob", "b@x.com">>)>>) : l \in InnerLists}

Inputs == Atoms \cup FlatLists \cup NestedLists

\* arguments of remove: one address, a list, a tuple or a set of addresses
RemoveArgs ==
    {Str(a) : a \in Addresses \cup {"c@x.com"}}
    \cup ShortLists({"a@x.com", "b@x.com", "c@x.com"})
    \cup {Tuple(<<"b@x.com", "a@x.com">>),
          [kind |-> "set", members |-> {"a@x.com", "c@x.com"}]}

\* raw cloud items: None, mappings with and without the emailAddress
\* envelope, with address or name missing or empty, a null envelope
InnerDicts ==
    {Dict(<<>>)}
    \cup {Dict([k \in {cc("address")} |-> a]) : a \in {"", "a@x.com"}}
    \cup {Dict([k \in {cc("name")} |-> n]) : n \in {"", "Bob"}}
    \cup {Dict([k \in {cc("address"), cc("name")} |->
                  IF k = cc("address") THEN a ELSE n]) :
            a \in {"", "a@x.com"}, n \in {"", "Bob"}}
RawItems ==
    {PyNone, PyStr} \cup InnerDicts
    \cup {Dict([k \in {cc("emailAddress")} |-> e]) : e \in InnerDicts \cup {PyNone}}
    \cup {Dict([k \in {"emailAddress"} |-> e]) :
            e \in {Dict([j \in {"address"} |-> "a@x.com"])}}

RawListItems ==
    {PyNone,
     Dict([k \in {cc("address")} |-> "a@x.com"]),
     Dict([k \in {cc("emailAddress")} |->
            Dict([j \in {cc("address"), cc("name")} |->
                    IF j = cc("address") THEN "b@x.com" ELSE "Bob"])]),
     Dict([k \in {cc("emailAddress")} |->
            Dict([j \in {cc("name")} |-> "Bob"])]),
     Dict([k \in {cc("emailAddress")} |-> PyNone])}

\* (parent, field) pairs a collection is constructed with
Configs == {<<Owner, FieldName>>, <<Owner, None>>, <<None, FieldName>>}

----------------------------------------------------------------------------
(* The state machine *)

Call(op, arg, pre, s, result) ==
    [op |-> op, arg |-> arg, pre |-> pre, pre_tc |-> track_changes,
     fired |-> s.fired, raised |-> s.raised, result |-> result,
     repeat |-> FALSE]

Init ==
    /\ recipients = <<>>
    /\ parent = None
    /\ field = None
    /\ untrack = FALSE
    /\ track_changes = {}
    /\ pc = "new"
    /\ last = [op |-> "none", arg |-> None, pre |-> <<>>, pre_tc |-> {},
               fired |-> 0, raised |-> FALSE, result |-> None,
               repeat |-> FALSE]

\* Recipients.__init__(recipients=x, parent=p, field=f); when add raises, the
\* exception leaves the constructor and no object is returned
Construct(x, p, f) ==
    LET s0 == Self(<<>>, p, f, TRUE, track_changes)
        s1 == IF Truthy(x) THEN add(s0, x) ELSE s0
    IN /\ pc = "new"
       /\ Len(s1.recipients) <= MaxLen
       /\ track_changes' = s1.track_changes
       /\ last' = Call("init", [x |-> x, parent |-> p, field |-> f],
                       <<>>, s1, None)
       /\ IF s1.raised
          THEN UNCHANGED <<recipients, parent, field, untrack, pc>>
          ELSE /\ recipients' = s1.recipients
               /\ parent' = p
               /\ field' = f
               /\ untrack' = FALSE
               /\ pc' = "ready"

\* Recipients.add(x)
Add(x) ==
    LET s0 == Self(recipients, parent, field, untrack, track_changes)
        s1 == add(s0, x)
    IN /\ pc = "ready"
       /\ Len(s1.recipients) <= MaxLen
       /\ recipients' = s1.recipients
       /\ track_changes' = s1.track_changes
       /\ last' = Call("add", x, recipients, s1, None)
       /\ UNCHANGED <<parent, field, untrack, pc>>

\* Recipients.clear()
Clear ==
    LET s1 == clear(Self(recipients, parent, field, untrack, track_changes))
    IN /\ pc = "ready"
       /\ recipients' = s1.recipients
       /\ track_changes' = s1.track_changes
       /\ last' = Call("clear", None, recipients, s1, None)
       /\ UNCHANGED <<parent, field, untrack, pc>>

\* Recipients.remove(a)
Remove(a) ==
    LET s1 == remove(Self(recipients, parent, field, untrack, track_changes), a)
    IN /\ pc = "ready"
       /\ recipients' = s1.recipients
       /\ track_changes' = s1.track_changes
       /\ last' = [Call("remove", a, recipients, s1, None)
                     EXCEPT !.repeat = (last.op = "remove" /\ last.arg = a)]
       /\ UNCHANGED <<parent, field, untrack, pc>>

\* HandleRecipientsMixin._recipients_from_cloud(raws, field=f) of the owner:
\* every raw item is converted, then Recipients(recipients_data, parent=self,
\* field=f) is built; an exception of a conversion or of the constructor
\* leaves the method and no collection is returned
FromCloud(raws, f) ==
    LET converted == [i \in DOMAIN raws |-> recipient_from_cloud(raws[i], f)]
        failed == \E i \in DOMAIN raws : converted[i].raised
        recipients_data == List([i \in DOMAIN raws |-> Obj(converted[i].r)])
        s0 == Self(<<>>, Owner, f, TRUE, track_changes)
        s1 == IF failed THEN Raise(s0)
              ELSE IF Truthy(recipients_data) THEN add(s0, recipients_data)
              ELSE s0
    IN /\ pc = "new"
       /\ Len(s1.recipients) <= MaxLen
       /\ track_changes' = s1.track_changes
       /\ last' = Call("recipients_from_cloud", [raws |-> raws, field |-> f],
                       <<>>, s1, None)
       /\ IF s1.raised
          THEN UNCHANGED <<recipients, parent, field, untrack, pc>>
          ELSE /\ recipients' = s1.recipients
               /\ parent' = Owner
               /\ field' = f
               /\ untrack' = FALSE
               /\ pc' = "ready"

\* HandleRecipientsMixin._recipient_from_cloud(x, field=f)
SingleFromCloud(x, f) ==
    LET got == recipient_from_cloud(x, f)
    IN /\ last' = [op |-> "recipient_from_cloud",
                   arg |-> [x |-> x, field |-> f], pre |-> recipients,
                   pre_tc |-> track_changes, fired |-> 0,
                   raised |-> got.raised, result |-> got.r, repeat |-> FALSE]
       /\ UNCHANGED <<recipients, parent, field, untrack, track_changes, pc>>

\* HandleRecipientsMixin._recipient_to_cloud(x)
ToCloud(x) ==
    /\ last' = [op |-> "recipient_to_cloud", arg |-> x, pre |-> recipients,
                pre_tc |-> track_changes, fired |-> 0, raised |-> FALSE,
                result |-> recipient_to_cloud(x), repeat |-> FALSE]
    /\ UNCHANGED <<recipients, parent, field, untrack, track_changes, pc>>

\* _recipient_to_cloud applied to the Recipient the last _recipient_from_cloud
\* returned
RoundTrip ==
    /\ last.op = "recipient_from_cloud"
    /\ ~last.raised
    /\ last' = [op |-> "round_trip", arg |-> last.arg, pre |-> recipients,
                pre_tc |-> track_changes, fired |-> 0, raised |-> FALSE,
                result |-> recipient_to_cloud(Obj(last.result)),
                repeat |-> FALSE]
    /\ UNCHANGED <<recipients, parent, field, untrack, track_changes, pc>>

\* the lists of raw items handed to _recipients_from_cloud
RawLists ==
    {<<>>} \cup {<<x>> : x \in RawItems}
    \cup {<<x, y>> : x \in RawListItems, y \in RawListItems}

\* the arguments of _recipient_to_cloud: None, Recipient objects
ToCloudArgs ==
    {Other("NoneType", FALSE)}
    \cup {Obj(Recipient(a, n, None, None)) : a \in Addresses, n \in Names}

Next ==
    \/ \E x \in Inputs, c \in Configs : Construct(x, c[1], c[2])
    \/ \E raws \in RawLists, f \in {FieldName, None} : FromCloud(raws, f)
    \/ \E x \in Inputs : Add(x)
    \/ \E a \in RemoveArgs : Remove(a)
    \/ Clear

Spec == Init /\ [][Next]_vars

(* The conversions of HandleRecipientsMixin on their own: raw items in,    *)
(* Recipient objects and wire mappings out.                                *)
NextCloud ==
    \/ \E x \in RawItems, f \in {FieldName, None} : SingleFromCloud(x, f)
    \/ \E x \in ToCloudArgs : ToCloud(x)
    \/ RoundTrip
    \/ \E raws \in RawLists, f \in {FieldName, None} : FromCloud(raws, f)

SpecCloud == Init /\ [][NextCloud]_vars

----------------------------------------------------------------------------
(* The Recipient objects held by a collection: their setters, and the      *)
(* read-only methods of the collection.                                     *)

MaxHeld == 2     \* longest collection followed when its entries are mutated

OtherField == "sender"       \* the field another Recipient of the owner reports under

\* Recipient._track_changes of the Recipient r, on the owner's set
Recipient_track_changes(self, r) ==
    IF FieldSet(r.field) /\ HasTrackChanges(r.parent)
    THEN [self EXCEPT !.track_changes = @ \cup {r.field}, !.fired = @ + 1]
    ELSE self

\* Recipient.address setter of the i-th entry
set_address(self, i, value) ==
    Recipient_track_changes(
        [self EXCEPT !.recipients[i].address = value], self.recipients[i])

\* Recipient.name setter of the i-th entry
set_name(self, i, value) ==
    Recipient_track_changes(
        [self EXCEPT !.recipients[i].name = value], self.recipients[i])

\* mutant: the first entry is returned, whatever its address
get_first_recipient(rs) ==
    IF Len(rs) > 0 THEN Obj(rs[1]) ELSE Other("NoneType", FALSE)

\* Recipients.get_first_recipient_with_address; the result is the Recipient
\* or None
get_first_recipient_with_address(rs) ==
    LET recipients_with_address == SelectSeq(rs, LAMBDA r : r.address # "")
    IN IF Len(recipients_with_address) > 0
       THEN Obj(recipients_with_address[1])
       ELSE Other("NoneType", FALSE)

\* the inputs of add and of the constructor here: strings, pairs, Recipient
\* objects built without a parent, a Recipient built for another field of
\* the owner, a list; every Recipient object is a fresh one
HeldInputs ==
    {Str("a@x.com"), Str(""), Tuple(<<"Bob", "a@x.com">>),
     Obj(Recipient("a@x.com", "Bob", None, None)),
     Obj(Recipient("", "", None, None)),
     Obj(Recipient("a@x.com", "", Owner, OtherField)),
     List(<<Obj(Recipient("a@x.com", "", None, None)), Tuple(<<"Bob", "">>)>>)}

\* the raw lists of _recipients_from_cloud here
HeldRawLists ==
    {<<>>, <<PyNone>>, <<Dict([k \in {cc("emailAddress")} |-> PyNone])>>,
     <<Dict([k \in {cc("emailAddress")} |->
               Dict([j \in {cc("address"), cc("name")} |->
                       IF j = cc("address") THEN "a@x.com" ELSE "Bob"])])>>,
     <<Dict([k \in {cc("address")} |-> ""]),
       Dict([k \in {cc("address")} |-> "a@x.com"])>>,
     <<Dict([k \in {cc("emailAddress")} |->
               Dict([j \in {cc("name")} |-> "Bob"])]),
       Dict([k \in {cc("emailAddress")} |->
               Dict([j \in {cc("address")} |-> "a@x.com"])])>>}

\* the values handed to the setters
SetAddresses == {"", "a@x.com"}

\* recipient.address = value, for the i-th entry of the collection
SetAddress(i, value) ==
    LET s1 == set_address(
                Self(recipients, parent, field, untrack, track_changes), i, value)
    IN /\ pc = "ready"
       /\ i \in DOMAIN recipients
       /\ recipients' = s1.recipients
       /\ track_changes' = s1.track_changes
       /\ last' = Call("set_address", [i |-> i, value |-> value],
                       recipients, s1, None)
       /\ UNCHANGED <<parent, field, untrack, pc>>

\* recipient.name = value, for the i-th entry of the collection
SetName(i, value) ==
    LET s1 == set_name(
                Self(recipients, parent, field, untrack, track_changes), i, value)
    IN /\ pc = "ready"
       /\ i \in DOMAIN recipients
       /\ recipients' = s1.recipients
       /\ track_changes' = s1.track_changes
       /\ last' = Call("set_name", [i |-> i, value |-> value],
                       recipients, s1, None)
       /\ UNCHANGED <<parent, field, untrack, pc>>

\* a read-only call: nothing but the history changes
Read(op, arg, result) ==
    /\ pc = "ready"
    /\ last' = [op |-> op, arg |-> arg, pre |-> recipients,
                pre_tc |-> track_changes, fired |-> 0, raised |-> FALSE,
                result |-> result, repeat |-> FALSE]
    /\ UNCHANGED <<recipients, parent, field, untrack, track_changes, pc>>

\* Recipients.get_first_recipient_with_address()
FirstWithAddress ==
    Read("get_first_recipient_with_address", None,
         get_first_recipient_with_address(recipients))

\* item in recipients
Contains(item) == Read("contains", item, contains(recipients, item))

\* len(recipients)
Length == Read("len", None, length(recipients))

\* bool(recipients[i])
Bool(i) ==
    /\ i \in DOMAIN recipients
    /\ Read("bool", i, Recipient_bool(recipients[i]))

NextHeld ==
    \/ \E x \in HeldInputs : Construct(x, Owner, FieldName)
    \/ \E raws \in HeldRawLists, f \in {FieldName, None} : FromCloud(raws, f)
    \/ \E x \in HeldInputs : Len(recipients) < MaxHeld /\ Add(x)
    \/ \E a \in {Str("a@x.com"), Str("")} : Remove(a)
    \/ Clear
    \/ \E i \in 1..MaxHeld, v \in SetAddresses : SetAddress(i, v)
    \/ \E i \in 1..MaxHeld, v \in Names : SetName(i, v)
    \/ FirstWithAddress
    \/ \E a \in SetAddresses : Contains(a)
    \/ Length
    \/ \E i \in 1..MaxHeld : Bool(i)
    \/ \E x \in {PyNone, Dict([k \in {cc("address")} |-> "a@x.com"])} :
          SingleFromCloud(x, FieldName)
    \/ \E x \in {Other("NoneType", FALSE),
                  Obj(Recipient("a@x.com", "Bob", Owner, OtherField))} :
          ToCloud(x)

SpecHeld == Init /\ [][NextHeld]_vars

----------------------------------------------------------------------------
(* Properties *)

\* the collection reports to an owner: _field is set, the parent exposes a
\* _track_changes set and notification is not suppressed
Tracked == FieldSet(field) /\ HasTrackChanges(parent) /\ untrack = FALSE

\* C1: building a collection, by Recipients(...) or by _recipients_from_cloud,
\* leaves the owner's _track_changes set as it was and adds nothing to it
C1_ConstructionNeverMarksDirty ==
    last.op \in {"init", "recipients_from_cloud"}
        => track_changes = last.pre_tc /\ last.fired = 0

\* C1 witness: a collection of two entries was just built for an owner that
\* tracks changes, under a field name
C1_Witness ==
    /\ last.op = "init"
    /\ pc = "ready"
    /\ Tracked
    /\ Len(recipients) >= 2

\* the number of add invocations a call add(x) makes on truthy values: the
\* call itself, and one per truthy element at every depth of a list
RECURSIVE TruthyCalls(_)
TruthyCalls(x) ==
    IF ~Truthy(x) THEN 0
    ELSE IF x.kind = "list"
    THEN LET RECURSIVE Sum(_)
             Sum(items) == IF items = <<>> THEN 0
                           ELSE TruthyCalls(Head(items)) + Sum(Tail(items))
         IN 1 + Sum(x.items)
    ELSE 1

C3_AddAllOrNothing ==
    (last.op = "add" /\ last.raised)
        => recipients = last.pre /\ track_changes = last.pre_tc

\* an input accepted by add: an address string, a (name, address) pair, a
\* Recipient, or a list of these
RECURSIVE Supported(_)
Supported(x) ==
    CASE x.kind = "str" -> TRUE
      [] x.kind = "Recipient" -> TRUE
      [] x.kind = "tuple" -> Len(x.elts) = 2
      [] x.kind = "list" -> \A i \in DOMAIN x.items : Supported(x.items[i])
      [] OTHER -> FALSE

\* the input is, or holds at some depth of its lists, a truthy value of an
\* unsupported shape
RECURSIVE HasTruthyUnsupported(_)
HasTruthyUnsupported(x) ==
    CASE x.kind = "str" -> FALSE
      [] x.kind = "Recipient" -> FALSE
      [] x.kind = "tuple" -> Len(x.elts) \notin {0, 2}
      [] x.kind = "list" ->
            \E i \in DOMAIN x.items : HasTruthyUnsupported(x.items[i])
      [] OTHER -> x.truthy

C5_RemoveNotifiesIffRemoved ==
    (last.op = "remove" /\ Tracked)
        => /\ last.fired >= 1 <=> Len(recipients) # Len(last.pre)
           /\ track_changes =
                 IF Len(recipients) # Len(last.pre)
                 THEN last.pre_tc \cup {field} ELSE last.pre_tc
           /\ last.repeat => /\ recipients = last.pre
                              /\ track_changes = last.pre_tc
                              /\ last.fired = 0

\* C5 witness: the second of two equal removes, on a tracked collection that
\* still holds an entry
C5_Witness ==
    /\ last.op = "remove"
    /\ Tracked
    /\ last.repeat
    /\ Len(recipients) >= 1
    /\ field \in track_changes

\* the addresses a remove argument names: the address itself, or the
\* elements of the list, tuple or set
AddressesOf(a) ==
    IF a.kind = "str" THEN {a.address}
    ELSE IF a.kind = "set" THEN a.members
    ELSE IF a.kind = "list" THEN {a.items[i] : i \in 1..Len(a.items)}
    ELSE {a.elts[i] : i \in 1..Len(a.elts)}

\* C6: remove leaves exactly the entries whose address is not named, in their
\* old order, and afterwards the collection contains none of the named
\* addresses
C6_RemoveKeepsExactlyTheOthers ==
    last.op = "remove"
        => /\ recipients =
                 SelectSeq(last.pre,
                           LAMBDA r : r.address \notin AddressesOf(last.arg))
           /\ \A a \in AddressesOf(last.arg) : ~contains(recipients, a)

\* C6 witness: a remove naming a present and an absent address took two
\* entries with the same address out of three and left the third
C6_Witness ==
    /\ last.op = "remove"
    /\ last.arg.kind = "list"
    /\ "c@x.com" \in AddressesOf(last.arg)
    /\ Len(last.pre) = 3
    /\ Len(recipients) = 1
    /\ last.pre[1].address = last.pre[2].address
    /\ last.pre[1].name # last.pre[2].name

\* C7: clear on a tracked collection leaves it empty and its field in the
\* owner's set, and notifies once, also when it was empty before
C7_ClearAlwaysMarksDirty ==
    (last.op = "clear" /\ Tracked)
        => /\ recipients = <<>>
           /\ field \in track_changes
           /\ last.fired = 1

\* C7 witness: clear of a tracked collection that was already empty and whose
\* field was not yet dirty
C7_Witness ==
    /\ last.op = "clear"
    /\ Tracked
    /\ last.pre = <<>>
    /\ field \notin last.pre_tc

\* the entries a supported input yields, in encounter order, when only the
\* pairs with an empty address are dropped
RECURSIVE EntriesDroppingOnlyPairs(_, _, _)
EntriesDroppingOnlyPairs(x, p, f) ==
    CASE x.kind = "str" ->
            <<[address |-> x.address, name |-> "", parent |-> p, field |-> f]>>
      [] x.kind = "Recipient" -> <<x.r>>
      [] x.kind = "tuple" ->
            IF x.elts[2] = "" THEN <<>>
            ELSE <<[address |-> x.elts[2], name |-> x.elts[1],
                    parent |-> p, field |-> f]>>
      [] x.kind = "list" ->
            LET RECURSIVE Cat(_)
                Cat(items) ==
                    IF items = <<>> THEN <<>>
                    ELSE EntriesDroppingOnlyPairs(Head(items), p, f)
                         \o Cat(Tail(items))
            IN Cat(x.items)

\* the same, every item without an address dropped: the pair with an empty
\* address, the empty string, the Recipient whose address is empty
Entries(x, p, f) ==
    SelectSeq(EntriesDroppingOnlyPairs(x, p, f), LAMBDA r : r.address # "")

\* C8 (as stated): for a list S of supported shapes, add(S) on a collection
\* holding Q yields Q followed by one entry per item of S, depth first, only
\* the pairs with an empty address dropped; Recipients(S) holds those entries
C8_AddAppendsAllButEmptyPairs ==
    /\ (last.op = "add" /\ last.arg.kind = "list" /\ Supported(last.arg))
          => recipients =
               last.pre \o EntriesDroppingOnlyPairs(last.arg, parent, field)
    /\ (last.op = "init" /\ last.arg.x.kind = "list" /\ Supported(last.arg.x))
          => /\ recipients =
                   EntriesDroppingOnlyPairs(last.arg.x, parent, field)
             /\ length(recipients) =
                   Len(EntriesDroppingOnlyPairs(last.arg.x, parent, field))

\* C8 (amended): for a list S of supported shapes, add(S) on a collection
\* holding Q yields Q followed by one entry per item of S that has an address,
\* depth first; every item without an address is dropped (a pair with an
\* empty address, an empty string, a Recipient whose address is empty);
\* Recipients(S) holds those entries and its length is their number
C8_AddAppendsItemsWithAddress ==
    /\ (last.op = "add" /\ last.arg.kind = "list" /\ Supported(last.arg))
          => /\ ~last.raised
             /\ recipients = last.pre \o Entries(last.arg, parent, field)
    /\ (last.op = "init" /\ last.arg.x.kind = "list" /\ Supported(last.arg.x))
          => /\ ~last.raised
             /\ parent = last.arg.parent /\ field = last.arg.field
             /\ recipients = Entries(last.arg.x, parent, field)
             /\ length(recipients) = Len(Entries(last.arg.x, parent, field))

\* C8 witness: add of a nested list put two different entries behind an entry
\* the collection already held
C8_Witness ==
    /\ last.op = "add"
    /\ last.arg.kind = "list"
    /\ Supported(last.arg)
    /\ \E i \in DOMAIN last.arg.items : last.arg.items[i].kind = "list"
    /\ Len(last.pre) = 1
    /\ Len(recipients) = 3
    /\ recipients[2].address # recipients[3].address

\* C9: add of a (name, address) pair with an empty address raises nothing and
\* changes neither the collection's sequence nor the owner's set
C9_EmptyPairChangesNothing ==
    (last.op = "add" /\ last.arg.kind = "tuple" /\ Len(last.arg.elts) = 2
     /\ last.arg.elts[2] = "")
        => /\ ~last.raised
           /\ recipients = last.pre
           /\ track_changes = last.pre_tc

\* the wire item {emailAddress: {address: a, name: n}} in the owner's casing
Canonical(a, n) ==
    Dict([k \in {cc("emailAddress")} |->
            Dict([j \in {cc("address"), cc("name")} |->
                    IF j = cc("address") THEN a ELSE n])])

\* the wire item {emailAddress: {address: a}}
CanonicalNameless(a) ==
    Dict([k \in {cc("emailAddress")} |-> Dict([j \in {cc("address")} |-> a])])

\* the mapping has no name key in its nested mapping (None has none)
NoNameKey(m) ==
    m.t = "dict" => cc("name") \notin DOMAIN m.d[cc("emailAddress")].d

\* C10 (as stated): _recipient_to_cloud(_recipient_from_cloud(x)) = x for every
\* canonical x with a non-empty name, and has no name key for every canonical
\* x without a name
C10_RoundTrip ==
    last.op = "round_trip"
        => /\ \A a \in Addresses, n \in Names \ {""} :
                 last.arg.x = Canonical(a, n) => last.result = last.arg.x
           /\ \A a \in Addresses :
                 last.arg.x = CanonicalNameless(a) => NoNameKey(last.result)

\* C10 (amended): _recipient_to_cloud(_recipient_from_cloud(x)) = x for every
\* canonical x with a non-empty address and a non-empty name (with an empty
\* address the result is None); for a canonical x without a name the result
\* has no name key
C10_RoundTripWithAddress ==
    last.op = "round_trip"
        => /\ \A a \in Addresses \ {""}, n \in Names \ {""} :
                 last.arg.x = Canonical(a, n) => last.result = last.arg.x
           /\ \A n \in Names \ {""} :
                 last.arg.x = Canonical("", n) => last.result = PyNone
           /\ \A a \in Addresses :
                 last.arg.x = CanonicalNameless(a) => NoNameKey(last.result)

\* C10 witness: a canonical item with address and name went through both
\* conversions
C10_Witness ==
    /\ last.op = "round_trip"
    /\ last.arg.x = Canonical("a@x.com", "Bob")
    /\ last.result.t = "dict"

\* the mapping a raw item's address and name are looked up in: the value
\* under the emailAddress key when the item has one, else the item itself
Envelope(x) ==
    IF x.t = "dict" /\ cc("emailAddress") \in DOMAIN x.d
    THEN x.d[cc("emailAddress")] ELSE x

\* the string a raw item carries under a key, "" when it carries none
Carried(x, key) ==
    LET e == Envelope(x)
    IN IF e.t = "dict" /\ cc(key) \in DOMAIN e.d THEN e.d[cc(key)] ELSE ""

\* C11: _recipient_from_cloud raises for no raw item that is None or a
\* mapping (empty, flat, enveloped, address or name missing, the envelope
\* null), and returns a Recipient whose address and name are the carried
\* values, "" for each missing one
C11_FromCloudIsTotal ==
    (last.op = "recipient_from_cloud" /\ last.arg.x.t \in {"NoneType", "dict"})
        => /\ ~last.raised
           /\ last.result.address = Carried(last.arg.x, "address")
           /\ last.result.name = Carried(last.arg.x, "name")

\* C12: _recipient_to_cloud returns None for None and for a Recipient whose
\* address is empty; otherwise exactly {emailAddress: {address}} with the
\* name key present exactly when the name is non-empty; never an empty
\* mapping, never a name that is empty
C12_ToCloudShape ==
    last.op = "recipient_to_cloud"
        => IF last.arg.kind = "NoneType" \/ last.arg.r.address = ""
           THEN last.result = PyNone
           ELSE /\ last.result =
                     IF last.arg.r.name # ""
                     THEN Canonical(last.arg.r.address, last.arg.r.name)
                     ELSE CanonicalNameless(last.arg.r.address)
                /\ last.result # Dict(<<>>)

\* C12 witness: a Recipient with an address and no name was converted
C12_Witness ==
    /\ last.op = "recipient_to_cloud"
    /\ last.arg.kind = "Recipient"
    /\ last.arg.r.address # ""
    /\ last.arg.r.name = ""
    /\ last.result.t = "dict"

\* C13: after the address or the name of an entry was set, in a collection
\* whose owner exposes a _track_changes set and whose field is set, the field
\* is in the owner's set, however the entry came into the collection
C13_SetterReachesOwner ==
    (last.op \in {"set_address", "set_name"}
     /\ HasTrackChanges(parent) /\ FieldSet(field))
        => field \in track_changes

\* C14: no call removes an element from the owner's set, and the only
\* element a call adds is the field name of the collection
C14_OwnerSetGrowsByFieldOnly ==
    /\ last.pre_tc \subseteq track_changes
    /\ (track_changes \ last.pre_tc) \subseteq {field}

\* the entries with an address, by index
WithAddress(rs) == {i \in DOMAIN rs : rs[i].address # ""}

\* C15: get_first_recipient_with_address returns the entry of lowest index
\* whose address is non-empty, None when there is none, and changes neither
\* the collection nor the owner's set
C15_FirstWithAddress ==
    last.op = "get_first_recipient_with_address"
        => /\ IF WithAddress(recipients) = {}
              THEN last.result = Other("NoneType", FALSE)
              ELSE \E i \in WithAddress(recipients) :
                      /\ \A j \in WithAddress(recipients) : i <= j
                      /\ last.result = Obj(recipients[i])
           /\ recipients = last.pre
           /\ track_changes = last.pre_tc
           /\ last.fired = 0

\* C15 witness: the first entry has lost its address through the setter and
\* the second entry was returned
C15_Witness ==
    /\ last.op = "get_first_recipient_with_address"
    /\ Len(recipients) = 2
    /\ recipients[1].address = ""
    /\ recipients[2].address # ""
    /\ last.result = Obj(recipients[2])

\* C16: `a in recipients` is true exactly when some entry has the address a
\* now, and len(recipients) is the number of entries, entries with the same
\* address counted one by one
C16_ContainsAndLength ==
    /\ last.op = "contains"
          => (last.result <=>
                \E i \in DOMAIN recipients : recipients[i].address = last.arg)
    /\ last.op = "len" => last.result = Cardinality(DOMAIN recipients)

\* C16 witness: the length of a collection holding two entries with the same
\* address and different names was taken
C16_Witness ==
    /\ last.op = "len"
    /\ Len(recipients) = 2
    /\ recipients[1].address = recipients[2].address
    /\ recipients[1].name # recipients[2].name

\* C17: bool(recipient) is true exactly when its address is non-empty now,
\* whatever its name and whatever setter calls came before
C17_TruthyIffAddress ==
    last.op = "bool" => (last.result <=> recipients[last.arg].address # "")

\* C17 witness: the truthiness of an entry with a name, whose address was
\* emptied, was taken
C17_Witness ==
    /\ last.op = "bool"
    /\ recipients[last.arg].address = ""
    /\ recipients[last.arg].name # ""
    /\ last.result = FALSE

\* the number of entries without an address
Empties(rs) == Cardinality({i \in DOMAIN rs : rs[i].address = ""})

\* C18: every entry appended by add, by the constructor or by
\* _recipients_from_cloud has a non-empty address; _recipients_from_cloud
\* returns, for every raw list, a collection with one entry per raw item
\* that carries a non-empty address; the number of entries without an
\* address grows only in the address setter
C18_NoEmptyAddressEnters ==
    /\ last.op \in {"add", "init", "recipients_from_cloud"}
          => \A i \in (Len(last.pre) + 1)..Len(recipients) :
                recipients[i].address # ""
    /\ last.op = "recipients_from_cloud"
          => /\ ~last.raised
             /\ Len(recipients) =
                  Cardinality({i \in DOMAIN last.arg.raws :
                                 Carried(last.arg.raws[i], "address") # ""})
    /\ Empties(recipients) > Empties(last.pre) => last.op = "set_address"

====
